---- MODULE Spec2Model ----
(***************************************************************************)
(* MedallionPairsStrategy (backtester/strategies/pairs_trading): the       *)
(* per-bar handler next(), the statistics it calls, the drawdown tracker   *)
(* and the end-of-run handler stop(), as a state machine driven by the     *)
(* data feed and the broker of the backtesting engine.                     *)
(*                                                                         *)
(* Numbers.  Prices are integers.  Hedge ratio, Kalman state and spreads   *)
(* are fixed-point integers in units of 1/Scale; portfolio values are in   *)
(* tenths of a currency unit.  A z-score (spread - mean) / std is kept as  *)
(* the pair <<a, b>> that stands for a / sqrt(b), so that every comparison *)
(* the code makes with a threshold is decided exactly on integers.         *)
(* An optional value (Python None) is the empty tuple, a present value v   *)
(* is <<v>>.  A dict keyed by the single pair_id is an optional value.     *)
(***************************************************************************)
EXTENDS Integers, Sequences, FiniteSets, TLC

Scale == 10 * 10

None == << >>
Some(v) == << v >>
Val(o) == o[1]

Abs(i) == IF i < 0 THEN -i ELSE i
Max(a, b) == IF a >= b THEN a ELSE b
Min(a, b) == IF a <= b THEN a ELSE b

RECURSIVE SumFrom(_, _)
SumFrom(w, i) == IF i > Len(w) THEN 0 ELSE w[i] + SumFrom(w, i + 1)
SumSeq(w) == SumFrom(w, 1)

RECURSIVE SumSqFrom(_, _)
SumSqFrom(w, i) == IF i > Len(w) THEN 0 ELSE w[i] * w[i] + SumSqFrom(w, i + 1)
SumSq(w) == SumSqFrom(w, 1)

RECURSIVE SumProdFrom(_, _, _)
SumProdFrom(u, w, i) ==
  IF i > Len(u) THEN 0 ELSE u[i] * w[i] + SumProdFrom(u, w, i + 1)
SumProd(u, w) == SumProdFrom(u, w, 1)

\* a / b <= c / d for a, c >= 0 and b, d > 0, decided by the continued
\* fraction of both sides, so that no product leaves the integer range.
RECURSIVE LeqFrac(_, _, _, _)
LeqFrac(a, b, c, d) ==
  LET qa == a \div b
      qc == c \div d
      ra == a % b
      rc == c % d
  IN  IF qa # qc THEN qa < qc
      ELSE IF ra = 0 THEN TRUE
      ELSE IF rc = 0 THEN FALSE
      ELSE LeqFrac(d, rc, b, ra)

(***************************************************************************)
(* The configuration of the run (params): lookback, max_hold_days and      *)
(* max_positions are set by the caller (scripts/backtesting/               *)
(* mean_reversion.py passes its own); the thresholds are the defaults.     *)
(* Rationals are <<numerator, denominator>>.                               *)
(***************************************************************************)
Params ==
  [ lookback      |-> 20,
    entry_z       |-> <<2, 1>>,
    exit_z        |-> <<1, 2>>,
    max_hold_days |-> 2,
    max_positions |-> 3,
    max_drawdown  |-> <<15, 100>>,
    use_kalman    |-> TRUE,
    use_half_life |-> TRUE,
    min_half_life |-> 5,
    max_half_life |-> 30 ]

\* len(self.spreads) < 20: the warm-up length of z-score and half-life
MinSpreads == 20
\* 3 * self.spread_std[0]
StopLossMult == 3
\* the half-life returned when the AR(1) coefficient is not negative
HalfLifeFallback == 100
\* pvalue > 0.05, in percent
CointLevel == 5
\* self.p.max_drawdown * 0.7
ReleaseFactor == <<7, 10>>
\* ln 2 to six digits, as <<numerator, denominator>>
Ln2 == <<693147, 1000000>>

\* self.initial_capital = self.broker.getvalue(): 100.0 here, in tenths
InitialCapital == 100 * 10

\* self.kalman_state = {'x': 0, 'P': 1, 'Q': 0.01, 'R': 0.1}
KalmanInit == [x |-> 0, P |-> Scale, Q |-> Scale \div 100, R |-> Scale \div 10]

(***************************************************************************)
(* Windows and least squares                                               *)
(***************************************************************************)

\* list.append(v) without the pop(0)
PushUnbounded(w, v, cap) == Append(w, v)

\* list.append(v) followed by pop(0) once the list is longer than cap
Push(w, v, cap) ==
  LET a == Append(w, v) IN IF Len(a) > cap THEN Tail(a) ELSE a

\* statsmodels add_constant(x) with has_constant='skip': a regressor that is
\* constant and not zero is taken for the constant itself and no column is
\* added, so the fit has a single parameter and params[1] raises IndexError.
\* (With constant prices the Kalman estimate stops moving once its update
\* falls below the resolution of the arithmetic and the spread window turns
\* constant: after some 125 bars in doubles, after a few bars at 1/Scale.)
IsNonzeroConst(x) == x[1] # 0 /\ \A i \in 1..Len(x) : x[i] = x[1]

\* n^2 times the covariance of x and y, and n^2 times the variance of x
Sxy(x, y) == Len(x) * SumProd(x, y) - SumSeq(x) * SumSeq(y)
Sxx(x) == Len(x) * SumSq(x) - SumSeq(x) * SumSeq(x)

(***************************************************************************)
(* calculate_hedge_ratio.  Returns [raised, ret, kalman_state].            *)
(***************************************************************************)
\* An R of 0 stands for a positive R below the resolution of the arithmetic
\* (below 1e-16 for P = 1 in doubles): P_pred / (P_pred + R) then evaluates
\* to 1 for P_pred > 0 and to 0 for P_pred = 0.
KalmanStep(k, p1, p2) ==
  LET x_pred == k.x
      P_pred == k.P + k.Q
      K == IF P_pred + k.R = 0 THEN 0
           ELSE (P_pred * Scale) \div (P_pred + k.R)
      x == x_pred + (K * (p1 * Scale - x_pred * p2)) \div Scale
      P == ((Scale - K) * P_pred) \div Scale
  IN  [k EXCEPT !.x = x, !.P = P]

\* sm.OLS(y, sm.add_constant(x)).fit().params[1], in units of 1/Scale
OlsHedge(x, y) ==
  IF IsNonzeroConst(x) THEN [raised |-> TRUE, ret |-> None]
  ELSE IF Sxx(x) = 0 THEN [raised |-> FALSE, ret |-> Some(0)]
  ELSE [raised |-> FALSE, ret |-> Some((Sxy(x, y) * Scale) \div Sxx(x))]

\* calculate_hedge_ratio without the test of the window length
calculate_hedge_ratio_unguarded(self, p1, p2) ==
  LET k == KalmanStep(self.kalman_state, p1, p2)
  IN  [raised |-> FALSE, ret |-> Some(k.x), kalman_state |-> k]

\* a filter that is started afresh on every bar
calculate_hedge_ratio_restarted(self, p1, p2) ==
  IF Len(self.price_history1) < Params.lookback
  THEN [raised |-> FALSE, ret |-> None, kalman_state |-> self.kalman_state]
  ELSE LET k == KalmanStep(KalmanInit, p1, p2)
       IN  [raised |-> FALSE, ret |-> Some(k.x), kalman_state |-> k]

calculate_hedge_ratio(self, p1, p2) ==
  IF Len(self.price_history1) < Params.lookback
  THEN [raised |-> FALSE, ret |-> None, kalman_state |-> self.kalman_state]
  ELSE IF Params.use_kalman
  THEN LET k == KalmanStep(self.kalman_state, p1, p2)
       IN  [raised |-> FALSE, ret |-> Some(k.x), kalman_state |-> k]
  ELSE LET f == OlsHedge(self.price_history2, self.price_history1)
       IN  [raised |-> f.raised, ret |-> f.ret,
            kalman_state |-> self.kalman_state]

(***************************************************************************)
(* calculate_spread: asset1[0] - hedge_ratio * asset2[0], in 1/Scale       *)
(***************************************************************************)
calculate_spread(hedge_ratio, p1, p2) ==
  IF hedge_ratio # None
  THEN Some(p1 * Scale - Val(hedge_ratio) * p2)
  ELSE None

(***************************************************************************)
(* calculate_z_score.  Returns [ret, spreads].  With n = len(spreads),     *)
(* S the sum and Q the sum of squares, mean = S / n and                    *)
(* std = sqrt(n Q - S^2) / n, so z = (n spread - S) / sqrt(n Q - S^2).     *)
(***************************************************************************)
\* the z-score without the test std != 0: 0 / 0 for a constant series
ZScoreOfUnguarded(w, spread) == <<Len(w) * spread - SumSeq(w), Sxx(w)>>

ZScoreOf(w, spread) ==
  LET b == Sxx(w)
  IN  IF b # 0 THEN <<Len(w) * spread - SumSeq(w), b>> ELSE <<0, 1>>

\* calculate_z_score without the warm-up of 20 spreads
calculate_z_score_unguarded(self, spread) ==
  IF spread = None THEN [ret |-> None, spreads |-> self.spreads]
  ELSE LET w == Push(self.spreads, Val(spread), Params.lookback)
       IN  [ret |-> Some(ZScoreOf(w, Val(spread))), spreads |-> w]

calculate_z_score(self, spread) ==
  IF spread = None THEN [ret |-> None, spreads |-> self.spreads]
  ELSE LET w == Push(self.spreads, Val(spread), Params.lookback)
       IN  IF Len(w) < MinSpreads THEN [ret |-> None, spreads |-> w]
           ELSE [ret |-> Some(ZScoreOf(w, Val(spread))), spreads |-> w]

\* z > e, z < -e and abs(z) < e for z = <<a, b>> and a rational e > 0
ZAbove(z, e) == z[1] > 0 /\ z[1] * z[1] * e[2] * e[2] > e[1] * e[1] * z[2]
ZBelowNeg(z, e) == z[1] < 0 /\ z[1] * z[1] * e[2] * e[2] > e[1] * e[1] * z[2]
ZAbsBelow(z, e) == z[1] * z[1] * e[2] * e[2] < e[1] * e[1] * z[2]

(***************************************************************************)
(* calculate_half_life.  Returns [raised, ret].  The regressor is          *)
(* spreads[0 .. n-2], the regressand the first differences.  A half-life   *)
(* is <<1, n, d>> for ln(2) * n / d, or <<0, n, d>> for n / d.             *)
(***************************************************************************)
Diffs(w) == [i \in 1..(Len(w) - 1) |-> w[i + 1] - w[i]]

calculate_half_life(self) ==
  IF Len(self.spreads) < MinSpreads THEN [raised |-> FALSE, ret |-> None]
  ELSE LET lag == SubSeq(self.spreads, 1, Len(self.spreads) - 1)
           delta == Diffs(self.spreads)
           sxx == Sxx(lag)
           sxy == Sxy(lag, delta)
       IN  IF IsNonzeroConst(lag) THEN [raised |-> TRUE, ret |-> None]
           ELSE IF sxx # 0 /\ sxy < 0
           THEN [raised |-> FALSE, ret |-> Some(<<1, sxx, -sxy>>)]
           ELSE [raised |-> FALSE, ret |-> Some(<<0, HalfLifeFallback, 1>>)]

\* lo <= half_life <= hi for integers lo, hi > 0
HalfLifeWithin(h, lo, hi) ==
  IF h[1] = 0
  THEN lo * h[3] <= h[2] /\ h[2] <= hi * h[3]
  ELSE /\ LeqFrac(h[3], h[2], Ln2[1], lo * Ln2[2])
       /\ LeqFrac(Ln2[1], hi * Ln2[2], h[3], h[2])

(***************************************************************************)
(* check_pair_eligibility.  coint is the outcome of statsmodels' coint on  *)
(* the two price windows: "raise", or its p-value in percent.              *)
(* Returns [raised, ret].                                                  *)
(***************************************************************************)
PValue(coint) == IF coint = "p01" THEN 1 ELSE 9

\* check_pair_eligibility without the half-life gate of lines 113-114
check_pair_eligibility_ungated(self, coint) ==
  IF self.half_life = None THEN [raised |-> FALSE, ret |-> FALSE]
  ELSE IF Len(self.price_history1) >= Params.lookback /\ coint = "raise"
  THEN [raised |-> TRUE, ret |-> FALSE]
  ELSE IF Len(self.price_history1) >= Params.lookback
          /\ PValue(coint) > CointLevel
  THEN [raised |-> FALSE, ret |-> FALSE]
  ELSE [raised |-> FALSE, ret |-> TRUE]

check_pair_eligibility(self, coint) ==
  IF self.half_life = None THEN [raised |-> FALSE, ret |-> FALSE]
  ELSE IF Len(self.price_history1) >= Params.lookback /\ coint = "raise"
  THEN [raised |-> TRUE, ret |-> FALSE]
  ELSE IF Len(self.price_history1) >= Params.lookback
          /\ PValue(coint) > CointLevel
  THEN [raised |-> FALSE, ret |-> FALSE]
  ELSE IF Params.use_half_life
          /\ ~HalfLifeWithin(Val(self.half_life), Params.min_half_life,
                             Params.max_half_life)
  THEN [raised |-> FALSE, ret |-> FALSE]
  ELSE [raised |-> FALSE, ret |-> TRUE]

(***************************************************************************)
(* check_drawdown.  drawdown = 1 - current_value / peak_value is compared  *)
(* in exact arithmetic; the code compares IEEE doubles, which differ from  *)
(* the exact comparison only where the exact drawdown equals the           *)
(* threshold.  For max_drawdown = 0.15 the doubles decide both ties:       *)
(* 1 - 0.85 evaluates to 0.15000000000000002 > 0.15, and 1 - 0.895 to      *)
(* 0.10499999999999998 < 0.15 * 0.7 = 0.105.                               *)
(* Returns [ret, peak_value, drawdown_lock].                               *)
(***************************************************************************)
TieExceeds == TRUE
TieReleases == TRUE

\* drawdown > limit, for the rational limit = <<n, d>>
DrawdownAbove(value, peak, limit) ==
  \/ (peak - value) * limit[2] > limit[1] * peak
  \/ (peak - value) * limit[2] = limit[1] * peak /\ TieExceeds

\* drawdown < limit
DrawdownBelow(value, peak, limit) ==
  \/ (peak - value) * limit[2] < limit[1] * peak
  \/ (peak - value) * limit[2] = limit[1] * peak /\ TieReleases

\* the release threshold without the factor 0.7
ReleaseLevelNoHysteresis == Params.max_drawdown

ReleaseLevel ==
  <<Params.max_drawdown[1] * ReleaseFactor[1],
    Params.max_drawdown[2] * ReleaseFactor[2]>>

check_drawdown(peak_value, drawdown_lock, current_value) ==
  LET peak == Max(peak_value, current_value)
  IN  IF DrawdownAbove(current_value, peak, Params.max_drawdown)
      THEN [ret |-> TRUE, peak_value |-> peak, drawdown_lock |-> TRUE]
      ELSE IF DrawdownBelow(current_value, peak, ReleaseLevel)
      THEN [ret |-> FALSE, peak_value |-> peak, drawdown_lock |-> FALSE]
      ELSE [ret |-> FALSE, peak_value |-> peak,
            drawdown_lock |-> drawdown_lock]

(***************************************************************************)
(* The broker.  An order is [data, side, size, why]: data is 1 or 2, size  *)
(* is in units of the leg's entry size, why names the branch of next()     *)
(* that submitted it.  buy() and sell() submit nothing for a size of 0;    *)
(* close() submits the order that offsets the position held when it is     *)
(* called, and nothing when the position is 0.  Market orders are filled   *)
(* before the next call of next().                                         *)
(***************************************************************************)
Order(data, side, size, why) ==
  IF size = 0 THEN << >>
  ELSE << [data |-> data, side |-> side, size |-> size, why |-> why] >>

close(data, possize, why) ==
  IF possize > 0 THEN Order(data, "sell", possize, why)
  ELSE IF possize < 0 THEN Order(data, "buy", -possize, why)
  ELSE << >>

CloseBoth(env, why) == close(1, env.pos1, why) \o close(2, env.pos2, why)

RECURSIVE Filled(_, _)
Filled(orders, data) ==
  IF orders = << >> THEN 0
  ELSE LET o == Head(orders)
       IN  (IF o.data # data THEN 0
            ELSE IF o.side = "buy" THEN o.size ELSE -o.size)
           + Filled(Tail(orders), data)

\* self.spread_std[0]: the StandardDeviation indicator over the last
\* lookback values of datas[0] - datas[1].  abs(d) > 3 * spread_std[0]
\* for d in units of 1/Scale; the indicator's variance is Sxx(w) / n^2.
StopLossHit(d, w) ==
  d * d * Len(w) * Len(w) > StopLossMult * StopLossMult * Scale * Scale * Sxx(w)

(***************************************************************************)
(* next(), after the statistics.  env is the bar: [len, p1, p2, value,     *)
(* coint, pos1, pos2, diffs].  The result is [self, orders, path,          *)
(* eligible]: the strategy's fields, the orders submitted, the way out of  *)
(* next() and the value of pair_eligible where it was computed.            *)
(***************************************************************************)
Ret(self, orders, path, eligible) ==
  [self |-> self, orders |-> orders, path |-> path, eligible |-> eligible]

max_hold_days == Params.max_hold_days

\* lines 165-174: the holding counter and the time stop
TimeStopDue(self) ==
  self.holding_days # None /\ Val(self.holding_days) + 1 >= max_hold_days

TimeStop(self) ==
  IF self.holding_days = None THEN self
  ELSE IF TimeStopDue(self)
  THEN [self EXCEPT !.holding_days = None, !.entry_prices = None,
                    !.active_pairs = @ - 1]
  ELSE [self EXCEPT !.holding_days = Some(Val(@) + 1)]

\* a breach that closes the first leg only
DrawdownOrdersFirstLeg(env) == close(1, env.pos1, "drawdown")

\* lines 159-162: a drawdown breach closes both legs of an open position
DrawdownOrders(env) ==
  IF env.pos1 # 0 \/ env.pos2 # 0 THEN CloseBoth(env, "drawdown") ELSE << >>

\* hedge_ratio clamped to [-5, 5]
HedgeLimit == 5
ClampHedge(h) == Max(Min(h, HedgeLimit * Scale), -HedgeLimit * Scale)

\* lines 186-196: the sizing of an entry.  vol is the standard deviation of
\* the last 20 spreads, target_vol = 0.01 (in units of 1/Scale), and
\* position_value = base_position * min(target_vol / vol, 1) for vol > 0,
\* base_position otherwise, with base_position = getvalue() * position_size.
\* PositionScaleSq is (position_value / base_position)^2 as <<a, b>>.
VolWindow == 20
TargetVol == Scale \div 100

\* the scaling without min(position_value, base_position)
PositionScaleSqUncapped(self) ==
  LET n == Min(Len(self.spreads), VolWindow)
      w == SubSeq(self.spreads, Len(self.spreads) - n + 1, Len(self.spreads))
      v == Sxx(w)
  IN  IF Len(self.spreads) >= VolWindow /\ v > 0
      THEN <<n * n * TargetVol * TargetVol, v>>
      ELSE <<1, 1>>

PositionScaleSq(self) ==
  LET n == Min(Len(self.spreads), VolWindow)
      w == SubSeq(self.spreads, Len(self.spreads) - n + 1, Len(self.spreads))
      v == Sxx(w)
  IN  IF Len(self.spreads) >= VolWindow /\ v > 0
         /\ n * n * TargetVol * TargetVol < v
      THEN <<n * n * TargetVol * TargetVol, v>>
      ELSE <<1, 1>>

\* lines 202-212: the notional of each leg over base_position, squared:
\* abs(size1) * asset1[0] = position_value and
\* abs(size2) * asset2[0] = position_value * abs(hedge_ratio), the hedge
\* ratio being the clamped one, in units of 1/Scale
Notional1Sq(self) == PositionScaleSq(self)
Notional2Sq(self) ==
  LET f == PositionScaleSq(self)
      h == ClampHedge(Val(self.hedge_ratio))
  IN  <<f[1] * h * h, f[2]>>

\* entry orders whose long-spread side repeats the short-spread orders
EntryOrdersOneSided(self, env) ==
  LET z == Val(self.z_score)
  IN  IF env.p1 <= 0 \/ env.p2 <= 0 THEN << >>
      ELSE IF ZAbove(z, Params.entry_z) \/ ZBelowNeg(z, Params.entry_z)
      THEN Order(1, "sell", 1, "entry") \o Order(2, "buy", 1, "entry")
      ELSE << >>

\* entry orders without the test of the prices
EntryOrdersAnyPrice(self, env) ==
  LET z == Val(self.z_score)
  IN  IF ZAbove(z, Params.entry_z)
      THEN Order(1, "sell", 1, "entry") \o Order(2, "buy", 1, "entry")
      ELSE IF ZBelowNeg(z, Params.entry_z)
      THEN Order(1, "buy", 1, "entry") \o Order(2, "sell", 1, "entry")
      ELSE << >>

\* lines 198-214: the entry orders of a flat bar.  size1 is
\* position_value / asset1[0] > 0; size2 is 0 exactly when the clamped
\* hedge ratio is 0.
EntryOrders(self, env) ==
  LET z == Val(self.z_score)
      size2 == IF ClampHedge(Val(self.hedge_ratio)) = 0 THEN 0 ELSE 1
  IN  IF env.p1 <= 0 \/ env.p2 <= 0 THEN << >>
      ELSE IF ZAbove(z, Params.entry_z)
      THEN Order(1, "sell", 1, "entry") \o Order(2, "buy", size2, "entry")
      ELSE IF ZBelowNeg(z, Params.entry_z)
      THEN Order(1, "buy", 1, "entry") \o Order(2, "sell", size2, "entry")
      ELSE << >>

\* lines 215-221: the bookkeeping that follows on every flat bar
EntryRecord(self, env) ==
  [self EXCEPT !.holding_days = Some(0),
               !.entry_prices = Some(<<env.p1, env.p2>>),
               !.entry_spread = self.spread,
               !.active_pairs = @ + 1,
               !.trades_total = @ + 1,
               !.entry_points = Append(@, Len(self.zscore_history) - 1)]

\* lines 226-235: pnl as [raised, num, den], pnl = num / (den * Scale)
Pnl(self, env) ==
  LET e1 == Val(self.entry_prices)[1]
      e2 == Val(self.entry_prices)[2]
      h  == Val(self.hedge_ratio)
  IN  IF env.pos1 > 0
      THEN [raised |-> e1 = 0 \/ e2 = 0,
            num |-> (env.p1 - e1) * e2 * Scale - (env.p2 - e2) * e1 * h,
            den |-> e1 * e2]
      ELSE [raised |-> env.p1 = 0 \/ env.p2 = 0,
            num |-> (e1 - env.p1) * env.p2 * Scale
                    - (e2 - env.p2) * env.p1 * h,
            den |-> env.p1 * env.p2]

Quot(num, den) == IF den > 0 THEN num \div den ELSE (-num) \div (-den)

\* a normal exit that closes and at once opens the opposite position
NormalExitAndReverse(self, env) ==
  IF ~ZAbsBelow(Val(self.z_score), Params.exit_z)
  THEN [self |-> self, orders |-> << >>]
  ELSE [self |-> [self EXCEPT !.holding_days = None, !.entry_prices = None,
                              !.active_pairs = @ - 1],
        orders |-> CloseBoth(env, "exit")
                   \o (IF env.pos1 > 0
                       THEN Order(1, "sell", 1, "entry")
                            \o Order(2, "buy", 1, "entry")
                       ELSE Order(1, "buy", 1, "entry")
                            \o Order(2, "sell", 1, "entry"))]

\* lines 224-245: the normal exit.  Returns [self, orders].
NormalExit(self, env) ==
  IF ~ZAbsBelow(Val(self.z_score), Params.exit_z)
  THEN [self |-> self, orders |-> << >>]
  ELSE IF self.entry_prices # None /\ Pnl(self, env).raised
  THEN [self |-> self, orders |-> << >>]
  ELSE LET pnl == Pnl(self, env)
           won == pnl.num * pnl.den > 0
           s1 == IF self.entry_prices = None THEN self
                 ELSE [self EXCEPT
                         !.total_return = @ + Quot(pnl.num, pnl.den),
                         !.trades_won = IF won THEN @ + 1 ELSE @]
       IN  [self |-> [s1 EXCEPT !.holding_days = None,
                                !.entry_prices = None,
                                !.active_pairs = @ - 1,
                                !.exit_points =
                                  Append(@, Len(self.zscore_history) - 1)],
            orders |-> CloseBoth(env, "exit")]

\* lines 247-252: the stop-loss
StopLossOrders(self, env) ==
  IF self.entry_spread # None
     /\ StopLossHit(Val(self.spread) - Val(self.entry_spread), env.diffs)
  THEN CloseBoth(env, "stop_loss")
  ELSE << >>

\* lines 157-252
Trade(self, env) ==
  LET dd == check_drawdown(self.peak_value, self.drawdown_lock, env.value)
      s6 == [self EXCEPT !.peak_value = dd.peak_value,
                         !.drawdown_lock = dd.drawdown_lock]
      s7 == TimeStop(s6)
      o7 == IF TimeStopDue(s6) THEN CloseBoth(env, "time_stop") ELSE << >>
      pe == check_pair_eligibility(s7, env.coint)
      has_position == env.pos1 # 0 \/ env.pos2 # 0
      ex == NormalExit(s7, env)
  IN  IF dd.ret THEN Ret(s6, DrawdownOrders(env), "drawdown", None)
      ELSE IF pe.raised THEN Ret(s7, o7, "escaped", None)
      ELSE IF ~has_position
      THEN Ret(EntryRecord(s7, env), o7 \o EntryOrders(s7, env),
               "flat", Some(pe.ret))
      ELSE Ret(ex.self, o7 \o ex.orders \o StopLossOrders(ex.self, env),
               "held", Some(pe.ret))

\* lines 130-155: the early return, the price windows and the statistics
\* of the try block.  Returns [self, path]; path is "ok" when next() goes on
\* to the drawdown check.
Statistics(self, len, p1, p2) ==
  IF len < Params.lookback THEN [self |-> self, path |-> "short"]
  ELSE
  LET s1 == [self EXCEPT
               !.price_history1 = Push(@, p1, Params.lookback),
               !.price_history2 = Push(@, p2, Params.lookback)]
      h  == calculate_hedge_ratio(s1, p1, p2)
      s2 == [s1 EXCEPT !.hedge_ratio = h.ret,
                       !.kalman_state = h.kalman_state]
      s3 == [s2 EXCEPT !.spread = calculate_spread(s2.hedge_ratio, p1, p2)]
      z  == calculate_z_score(s3, s3.spread)
      s4 == [s3 EXCEPT !.z_score = z.ret, !.spreads = z.spreads]
      hl == calculate_half_life(s4)
      s5 == [s4 EXCEPT !.half_life = hl.ret,
                       !.zscore_history = Append(@, s4.z_score)]
  IN  IF h.raised THEN [self |-> s1, path |-> "raised"]
      ELSE IF hl.raised THEN [self |-> s4, path |-> "raised"]
      ELSE IF s5.z_score = None \/ s5.hedge_ratio = None
      THEN [self |-> s5, path |-> "skipped"]
      ELSE [self |-> s5, path |-> "ok"]

\* next(), given the outcome st of its statistics
Decide(st, env) ==
  IF st.path = "ok" THEN Trade(st.self, env)
  ELSE Ret(st.self, << >>, st.path, None)

next(self, env) == Decide(Statistics(self, env.len, env.p1, env.p2), env)

(***************************************************************************)
(* The run.  The strategy's fields keep their names; nbars is              *)
(* len(self.datas[0]), diffs the window of the spread_std indicator, pos1  *)
(* and pos2 the broker's positions, orders the orders submitted by the     *)
(* last call of next().  path, pair_eligible, pair_open and open_bars      *)
(* observe the last call: the way out of next(), the value of              *)
(* pair_eligible, whether an entry has been submitted with no close since, *)
(* the number of consecutive calls that found a position open, and the     *)
(* largest of the initial capital and the portfolio values of the calls.   *)
(* dd_values is the list of portfolio values check_drawdown has seen in    *)
(* the drawdown scenario.                                                  *)
(***************************************************************************)
VARIABLES price_history1, price_history2, kalman_state, hedge_ratio, spread,
          z_score, half_life, spreads, zscore_history, holding_days,
          entry_prices, entry_spread, active_pairs, peak_value,
          drawdown_lock, trades_total, trades_won, total_return,
          entry_points, exit_points,
          nbars, diffs, pos1, pos2, orders, phase,
          path, pair_eligible, pair_open, open_bars, seen_peak, dd_values,
          pair_data, max_workers, started, running, futures, completed,
          pairs

strategy == <<price_history1, price_history2, kalman_state, hedge_ratio,
              spread, z_score, half_life, spreads, zscore_history,
              holding_days, entry_prices, entry_spread, active_pairs,
              peak_value, drawdown_lock, trades_total, trades_won,
              total_return, entry_points, exit_points>>

engine == <<nbars, diffs, pos1, pos2, orders, phase>>

observed == <<path, pair_eligible, pair_open, open_bars, seen_peak>>

\* BacktestRunner.find_pairs: the screening of the symbol pairs
screening == <<pair_data, max_workers, started, running, futures, completed,
               pairs>>

vars == <<strategy, engine, observed, dd_values, screening>>

\* no screening under way
ScreeningIdle ==
  /\ pair_data = << >> /\ max_workers = 1 /\ started = 0 /\ running = {}
  /\ futures = << >> /\ completed = << >> /\ pairs = None

\* The feed: LiveBars bars of free prices after a quiet stretch at the base
\* prices that lasts until the bar before the first z-score.
LiveBars == 5
QuietBars == 2 * Params.lookback + MinSpreads - 3
MaxBars == QuietBars + LiveBars

BasePrice == <<1, 1>>
LivePrices == {<<1, 1>>, <<2, 1>>, <<3, 1>>}
\* a bar without a quote: both closes are 0.  It can be any of the first
\* ZeroBars bars after the quiet stretch.
ZeroBars == 2
ZeroPrice == <<0, 0>>
\* a close on which the second leg moves, offered on the last of the ZeroBars
SecondLegPrice == <<3, 2>>
Prices(n) ==
  IF n <= QuietBars THEN {BasePrice}
  ELSE IF n < QuietBars + ZeroBars THEN LivePrices \cup {ZeroPrice}
  ELSE IF n = QuietBars + ZeroBars
  THEN LivePrices \cup {ZeroPrice, SecondLegPrice}
  ELSE LivePrices

\* broker.getvalue(), in tenths: 100.0, 87.0, 80.0, and on the last bar of
\* the feed also a new high, 110.0
Values == {InitialCapital, 870, 800}
HighValue == InitialCapital + 100
ValuesAt(n) == IF n = MaxBars THEN Values \cup {HighValue} ELSE Values

CointOutcomes == {"p01", "p09", "raise"}

Self ==
  [ price_history1 |-> price_history1, price_history2 |-> price_history2,
    kalman_state |-> kalman_state, hedge_ratio |-> hedge_ratio,
    spread |-> spread, z_score |-> z_score, half_life |-> half_life,
    spreads |-> spreads, zscore_history |-> zscore_history,
    holding_days |-> holding_days, entry_prices |-> entry_prices,
    entry_spread |-> entry_spread, active_pairs |-> active_pairs,
    peak_value |-> peak_value, drawdown_lock |-> drawdown_lock,
    trades_total |-> trades_total, trades_won |-> trades_won,
    total_return |-> total_return, entry_points |-> entry_points,
    exit_points |-> exit_points ]

\* __init__
InitStrategy ==
  /\ price_history1 = << >> /\ price_history2 = << >>
  /\ kalman_state = KalmanInit
  /\ hedge_ratio = None /\ spread = None /\ z_score = None
  /\ half_life = None
  /\ spreads = << >> /\ zscore_history = << >>
  /\ holding_days = None /\ entry_prices = None /\ entry_spread = None
  /\ active_pairs = 0
  /\ peak_value = InitialCapital /\ drawdown_lock = FALSE
  /\ trades_total = 0 /\ trades_won = 0 /\ total_return = 0
  /\ entry_points = << >> /\ exit_points = << >>

Init ==
  /\ InitStrategy
  /\ nbars = 0 /\ diffs = << >> /\ pos1 = 0 /\ pos2 = 0 /\ orders = << >>
  /\ phase = "running"
  /\ path = "init" /\ pair_eligible = None /\ pair_open = FALSE
  /\ open_bars = 0 /\ seen_peak = InitialCapital
  /\ dd_values = << >>
  /\ ScreeningIdle

SetStrategy(s) ==
  /\ price_history1' = s.price_history1
  /\ price_history2' = s.price_history2
  /\ kalman_state' = s.kalman_state
  /\ hedge_ratio' = s.hedge_ratio
  /\ spread' = s.spread
  /\ z_score' = s.z_score
  /\ half_life' = s.half_life
  /\ spreads' = s.spreads
  /\ zscore_history' = s.zscore_history
  /\ holding_days' = s.holding_days
  /\ entry_prices' = s.entry_prices
  /\ entry_spread' = s.entry_spread
  /\ active_pairs' = s.active_pairs
  /\ peak_value' = s.peak_value
  /\ drawdown_lock' = s.drawdown_lock
  /\ trades_total' = s.trades_total
  /\ trades_won' = s.trades_won
  /\ total_return' = s.total_return
  /\ entry_points' = s.entry_points
  /\ exit_points' = s.exit_points

HasWhy(os, whys) == \E i \in 1..Len(os) : os[i].why \in whys
Closes == {"drawdown", "time_stop", "exit", "stop_loss"}

\* One bar: the broker fills the orders of the previous bar, the indicator
\* takes the new price difference, and the engine calls next().
Bar ==
  /\ phase = "running"
  /\ nbars < MaxBars
  /\ \E p \in Prices(nbars + 1) :
       \E st \in {Statistics(Self, nbars + 1, p[1], p[2])} :
       \E value \in ValuesAt(nbars + 1), coint \in CointOutcomes :
       \E env \in {[len |-> nbars + 1, p1 |-> p[1], p2 |-> p[2],
                   value |-> value, coint |-> coint,
                   pos1 |-> pos1 + Filled(orders, 1),
                   pos2 |-> pos2 + Filled(orders, 2),
                   diffs |-> Push(diffs, p[1] - p[2], Params.lookback)]} :
       \E r \in {Decide(st, env)} :
       LET held == env.pos1 # 0 \/ env.pos2 # 0
       IN  /\ SetStrategy(r.self)
           /\ nbars' = env.len
           /\ diffs' = env.diffs
           /\ pos1' = env.pos1
           /\ pos2' = env.pos2
           /\ orders' = r.orders
           /\ phase' = IF r.path = "escaped" THEN "crashed" ELSE "running"
           /\ path' = r.path
           /\ pair_eligible' = r.eligible
           /\ pair_open' = IF HasWhy(r.orders, Closes) THEN FALSE
                           ELSE IF HasWhy(r.orders, {"entry"}) THEN TRUE
                           ELSE pair_open
           /\ open_bars' = IF held THEN open_bars + 1 ELSE 0
           /\ seen_peak' = Max(seen_peak, value)
           /\ UNCHANGED <<dd_values, screening>>

\* stop(): the end of the feed; the summary is printed and plotted
Stop ==
  /\ phase = "running"
  /\ nbars = MaxBars
  /\ phase' = "stopped"
  /\ UNCHANGED <<strategy, nbars, diffs, pos1, pos2, orders, observed,
                 dd_values, screening>>

Next == Bar \/ Stop

Spec == Init /\ [][Next]_vars

(***************************************************************************)
(* check_drawdown alone: the drawdown tracker of a fresh strategy is fed   *)
(* up to MaxValues portfolio values (tenths) and dd_values records them.   *)
(***************************************************************************)
MaxValues == 5
DrawdownValues == {800, 850, 870, 894, 895, InitialCapital, 1100}

CheckDrawdown ==
  /\ Len(dd_values) < MaxValues
  /\ \E value \in DrawdownValues :
       \E r \in {check_drawdown(peak_value, drawdown_lock, value)} :
         /\ peak_value' = r.peak_value
         /\ drawdown_lock' = r.drawdown_lock
         /\ dd_values' = Append(dd_values, value)
  /\ UNCHANGED <<price_history1, price_history2, kalman_state, hedge_ratio,
                 spread, z_score, half_life, spreads, zscore_history,
                 holding_days, entry_prices, entry_spread, active_pairs,
                 trades_total, trades_won, total_return, entry_points,
                 exit_points, engine, observed, screening>>

NextDrawdown == CheckDrawdown

SpecDrawdown == Init /\ [][NextDrawdown]_vars

(***************************************************************************)
(* calculate_hedge_ratio alone: a strategy whose filter has Q = 0 and an R *)
(* below the resolution of the arithmetic is fed KalmanBars bars on which  *)
(* price1 = k * price2.  The price windows start one bar short of          *)
(* lookback, at the same ratio.                                            *)
(***************************************************************************)
KalmanBars == 5
KalmanRatios == {1, 2, 3}
KalmanPrices2 == {1, 2, 3}
KalmanTending == [x |-> 0, P |-> Scale, Q |-> 0, R |-> 0]
KalmanStart == 2 * Params.lookback - 2

InitKalman ==
  /\ \E k \in KalmanRatios, p2 \in KalmanPrices2 :
       /\ price_history1 = [i \in 1..(Params.lookback - 1) |-> k * p2]
       /\ price_history2 = [i \in 1..(Params.lookback - 1) |-> p2]
  /\ kalman_state = KalmanTending
  /\ hedge_ratio = None /\ spread = None /\ z_score = None
  /\ half_life = None
  /\ spreads = << >> /\ zscore_history = << >>
  /\ holding_days = None /\ entry_prices = None /\ entry_spread = None
  /\ active_pairs = 0
  /\ peak_value = InitialCapital /\ drawdown_lock = FALSE
  /\ trades_total = 0 /\ trades_won = 0 /\ total_return = 0
  /\ entry_points = << >> /\ exit_points = << >>
  /\ nbars = KalmanStart /\ diffs = << >> /\ pos1 = 0 /\ pos2 = 0
  /\ orders = << >> /\ phase = "running"
  /\ path = "init" /\ pair_eligible = None /\ pair_open = FALSE
  /\ open_bars = 0 /\ seen_peak = InitialCapital
  /\ dd_values = << >>
  /\ ScreeningIdle

\* the ratio k of the feed
KalmanRatio == price_history1[1] \div price_history2[1]

\* lines 137-144: one bar's prices enter the windows and the filter steps
KalmanCall ==
  /\ nbars < KalmanStart + KalmanBars
  /\ \E p2 \in KalmanPrices2 :
       \E s1 \in {[Self EXCEPT
                     !.price_history1 = Push(@, KalmanRatio * p2,
                                             Params.lookback),
                     !.price_history2 = Push(@, p2, Params.lookback)]} :
       \E h \in {calculate_hedge_ratio(s1, KalmanRatio * p2, p2)} :
         /\ price_history1' = s1.price_history1
         /\ price_history2' = s1.price_history2
         /\ hedge_ratio' = h.ret
         /\ kalman_state' = h.kalman_state
  /\ nbars' = nbars + 1
  /\ UNCHANGED <<spread, z_score, half_life, spreads, zscore_history,
                 holding_days, entry_prices, entry_spread, active_pairs,
                 peak_value, drawdown_lock, trades_total, trades_won,
                 total_return, entry_points, exit_points,
                 diffs, pos1, pos2, orders, phase, observed, dd_values,
                 screening>>

NextKalman == KalmanCall

\* the engine delivers every bar of the feed
SpecKalman == InitKalman /\ [][NextKalman]_vars /\ WF_vars(KalmanCall)

(***************************************************************************)
(* BacktestRunner.find_pairs (scripts/backtesting/mean_reversion.py).      *)
(* symbol_pairs lists the unordered pairs of the symbols in the order of   *)
(* the two nested loops; pair_data[i] is what the price data of the i-th   *)
(* pair yield: whether test_pair gets as far as coint (the overlap is long  *)
(* enough, no NaN, no constant series), the p-value of coint in percent    *)
(* and the correlation in tenths.  executor.map submits every              *)
(* pair; at most max_workers threads each take the next pair, run          *)
(* test_pair and set the pair's future; the results are read in the order  *)
(* of symbol_pairs, filtered and sorted.                                   *)
(***************************************************************************)
Symbols == <<"A", "B", "C">>

symbol_pairs ==
  LET n == Len(Symbols)
      ps == {<<i, j>> : i \in 1..n, j \in 1..n}
      before(a, b) == a[1] < b[1] \/ (a[1] = b[1] /\ a[2] < b[2])
      up == {q \in ps : q[1] < q[2]}
  IN  [k \in 1..Cardinality(up) |->
         CHOOSE q \in up : Cardinality({r \in up : before(r, q)}) = k - 1]

\* pvalue < threshold, in percent, and abs(correlation) > 0.5, in tenths
PairThreshold == 5
MinCorrelation == 5

PairData ==
  { [overlap |-> FALSE, pvalue |-> 1, correlation |-> 9],
    [overlap |-> TRUE, pvalue |-> 1, correlation |-> 9],
    [overlap |-> TRUE, pvalue |-> 3, correlation |-> 9],
    [overlap |-> TRUE, pvalue |-> 3, correlation |-> -9],
    [overlap |-> TRUE, pvalue |-> 3, correlation |-> 5],
    [overlap |-> TRUE, pvalue |-> 5, correlation |-> 9] }

MaxWorkers == 3

\* test_pair: None, or (sym1, sym2, pvalue, correlation)
test_pair(pair, d) ==
  IF ~d.overlap THEN None
  ELSE IF d.pvalue < PairThreshold /\ Abs(d.correlation) > MinCorrelation
  THEN Some(<<Symbols[pair[1]], Symbols[pair[2]], d.pvalue, d.correlation>>)
  ELSE None

\* the results in the order in which the tasks completed
ResultsAsCompleted(fs, done) == [k \in 1..Len(done) |-> fs[done[k]]]

\* list(executor.map(test_pair, symbol_pairs)): the results in the order of
\* symbol_pairs
Results(fs, done) == [k \in 1..Len(fs) |-> fs[k]]

\* [r for r in results if r is not None]
RECURSIVE NotNone(_)
NotNone(rs) ==
  IF rs = << >> THEN << >>
  ELSE IF Head(rs) = None THEN NotNone(Tail(rs))
  ELSE <<Val(Head(rs))>> \o NotNone(Tail(rs))

\* pairs.sort(key=lambda x: x[2]): a stable sort by p-value
RECURSIVE InsertByPvalue(_, _)
InsertByPvalue(sorted, e) ==
  IF sorted = << >> THEN <<e>>
  ELSE IF e[3] < Head(sorted)[3] THEN <<e>> \o sorted
  ELSE <<Head(sorted)>> \o InsertByPvalue(Tail(sorted), e)

RECURSIVE SortByPvalue(_, _)
SortByPvalue(sorted, rest) ==
  IF rest = << >> THEN sorted
  ELSE SortByPvalue(InsertByPvalue(sorted, Head(rest)), Tail(rest))

InitPairs ==
  /\ InitStrategy
  /\ nbars = 0 /\ diffs = << >> /\ pos1 = 0 /\ pos2 = 0 /\ orders = << >>
  /\ phase = "running"
  /\ path = "init" /\ pair_eligible = None /\ pair_open = FALSE
  /\ open_bars = 0 /\ seen_peak = InitialCapital
  /\ dd_values = << >>
  /\ pair_data \in [1..Len(symbol_pairs) -> PairData]
  /\ max_workers \in 1..MaxWorkers
  /\ started = 0 /\ running = {}
  /\ futures = [k \in 1..Len(symbol_pairs) |-> "pending"]
  /\ completed = << >> /\ pairs = None

\* an idle worker thread takes the next pair of the work queue
TaskStart ==
  /\ pairs = None
  /\ started < Len(symbol_pairs)
  /\ Cardinality(running) < max_workers
  /\ started' = started + 1
  /\ running' = running \cup {started + 1}
  /\ UNCHANGED <<pair_data, max_workers, futures, completed, pairs>>
  /\ UNCHANGED <<strategy, engine, observed, dd_values>>

\* a worker thread returns from test_pair and sets the future of its pair
TaskFinish ==
  /\ \E i \in running :
       /\ futures' = [futures EXCEPT
                        ![i] = test_pair(symbol_pairs[i], pair_data[i])]
       /\ running' = running \ {i}
       /\ completed' = Append(completed, i)
  /\ UNCHANGED <<pair_data, max_workers, started, pairs>>
  /\ UNCHANGED <<strategy, engine, observed, dd_values>>

\* lines 174-182: every future is set; find_pairs filters, sorts and returns
Return ==
  /\ pairs = None
  /\ started = Len(symbol_pairs) /\ running = {}
  /\ pairs' = Some(SortByPvalue(<< >>, NotNone(Results(futures, completed))))
  /\ UNCHANGED <<pair_data, max_workers, started, running, futures,
                 completed>>
  /\ UNCHANGED <<strategy, engine, observed, dd_values>>

NextPairs == TaskStart \/ TaskFinish \/ Return

SpecPairs == InitPairs /\ [][NextPairs]_vars

(***************************************************************************)
(* Properties.  Every state after Init is the state left by a call of      *)
(* next(): orders holds the orders of that call, pos1 and pos2 the         *)
(* positions the call found, path the way it left.                         *)
(***************************************************************************)
EntryEmitted == HasWhy(orders, {"entry"})
PositionOpen == pos1 # 0 \/ pos2 # 0

\* a close order for leg data among os
ClosesLeg(os, data) ==
  \E i \in 1..Len(os) : os[i].data = data /\ os[i].why \in Closes

\* C1: while the drawdown lock is engaged (from the bar on which drawdown
\* exceeds max_drawdown until the first later bar with drawdown below
\* 0.7 * max_drawdown) next() emits no entry order.
C1_NoEntryWhileLocked == drawdown_lock => ~EntryEmitted

\* C2: every bar on which next() emits an entry order is a bar on which
\* check_pair_eligibility() returned True.
C2_EntryOnlyWhenEligible == EntryEmitted => pair_eligible = Some(TRUE)

\* C3: a call of next() in which the statistics raise leaves the strategy
\* state (price windows, Kalman state, spreads, hedge ratio, spread,
\* z-score, half-life and the per-pair records) as it was before the call
\* and emits no order.
C3_RaiseLeavesStateUnchanged ==
  [][path' = "raised" =>
       /\ UNCHANGED <<price_history1, price_history2, kalman_state, spreads,
                      hedge_ratio, spread, z_score, half_life, holding_days,
                      entry_prices, entry_spread, active_pairs>>
       /\ orders' = << >>]_vars

\* C4: after every bar the per-pair record (the entries of holding_days,
\* entry_prices and entry_spread) exists exactly when an entry order has
\* been emitted and no close has been emitted since.
C4_RecordIffPairOpen ==
  /\ (holding_days # None) <=> pair_open
  /\ (entry_prices # None) <=> pair_open
  /\ (entry_spread # None) <=> pair_open

\* C5: no pair position is found open by more than max_hold_days
\* consecutive calls of next() after its entry bar.
C5_HeldAtMostMaxHoldDays == open_bars <= max_hold_days

\* C6 as stated: a drawdown breach with a pair position open emits no close
\* order for either leg.
C6_BreachNeverLiquidates ==
  (path = "drawdown" /\ PositionOpen) => ~HasWhy(orders, Closes)

\* C6, amended: a drawdown breach with a pair position open emits, for each
\* leg, the order that offsets the position of that leg, emits no other
\* order, and leaves the per-pair records and active_pairs as they were.
C6_BreachLiquidates ==
  [][(path' = "drawdown" /\ (pos1' # 0 \/ pos2' # 0)) =>
       /\ pos1' + Filled(orders', 1) = 0
       /\ pos2' + Filled(orders', 2) = 0
       /\ \A i \in 1..Len(orders') : orders'[i].why = "drawdown"
       /\ Len(orders') <= 2
       /\ UNCHANGED <<holding_days, entry_prices, entry_spread,
                      active_pairs>>]_vars

C6_BreachWithPositionOpen ==
  /\ path = "drawdown"
  /\ pos1 # 0 /\ pos2 # 0
  /\ ClosesLeg(orders, 1) /\ ClosesLeg(orders, 2)
  /\ holding_days # None

\* abs(d) > 3 * std(w) for the rolling window w of the spread series, d and
\* w in units of 1/Scale
SpreadStopHit(d, w) ==
  d * d * Len(w) * Len(w) > StopLossMult * StopLossMult * Sxx(w)

\* C7: on every bar on which a pair position is open and the spread is more
\* than three rolling standard deviations of the spread away from
\* entry_spread, next() emits a close of both legs.
C7_StopLossCloses ==
  ( /\ PositionOpen
    /\ spread # None /\ entry_spread # None
    /\ SpreadStopHit(Val(spread) - Val(entry_spread), spreads) ) =>
  /\ pos1 # 0 => ClosesLeg(orders, 1)
  /\ pos2 # 0 => ClosesLeg(orders, 2)

\* C8: next() emits an entry order only when active_pairs, as the bar found
\* it, is below max_positions.
C8_EntryBelowMaxPositions ==
  EntryEmitted => active_pairs - 1 < Params.max_positions

\* C9: no exception of the cointegration test or of a fit escapes next().
C9_NoExceptionEscapes == phase # "crashed"

\* portfolio values 100, 100, 80, in tenths
Scenario == <<InitialCapital, InitialCapital, 800>>

\* C10: with max_drawdown = 0.15 and portfolio values 100, 100, 80 the
\* drawdown lock is engaged at the value 80, stays engaged while the
\* following values are below 89.5 (87 among them), and is released at the
\* first following value that is at least 89.5.
C10_LockScenario ==
  LET n == Len(dd_values)
  IN  (n >= 3 /\ SubSeq(dd_values, 1, 3) = Scenario) =>
        /\ (\A i \in 4..n : dd_values[i] < 895) => drawdown_lock
        /\ ( /\ n > 3
             /\ dd_values[n] >= 895
             /\ \A i \in 4..(n - 1) : dd_values[i] < 895 ) => ~drawdown_lock

C10_ReleasedAtTie ==
  /\ dd_values = Scenario \o <<870, 895>>
  /\ ~drawdown_lock

\* the prices of the last bar
LastPrice1 == price_history1[Len(price_history1)]
LastPrice2 == price_history2[Len(price_history2)]

\* C11: on every bar on which next() reaches its exit logic with a pair
\* position open, abs(z_score) < exit_z makes it close each open leg and
\* remove the pair from holding_days and entry_prices, and
\* abs(z_score) >= exit_z makes the normal-exit branch emit no close.
C11_NormalExit ==
  (path = "held" /\ PositionOpen) =>
    IF ZAbsBelow(Val(z_score), Params.exit_z)
    THEN /\ pos1 # 0 => ClosesLeg(orders, 1)
         /\ pos2 # 0 => ClosesLeg(orders, 2)
         /\ holding_days = None /\ entry_prices = None
    ELSE ~HasWhy(orders, {"exit"})

\* os is one order for instrument 1 with side s1 and one for instrument 2
\* with side s2, and nothing else
OnePerLeg(os, s1, s2) ==
  /\ Len(os) = 2
  /\ os[1].data = 1 /\ os[1].side = s1
  /\ os[2].data = 2 /\ os[2].side = s2

C13_NoEntryWithExit == ~(EntryEmitted /\ HasWhy(orders, {"exit"}))

C13_ExitWithoutEntry ==
  /\ HasWhy(orders, {"exit"}) /\ ~EntryEmitted
  /\ ZAbsBelow(Val(z_score), Params.exit_z)

\* new is old with one value appended and, if old was full, its oldest
\* value evicted
Fifo(old, new, cap) ==
  /\ 0 < Len(new) /\ Len(new) <= cap
  /\ SubSeq(new, 1, Len(new) - 1)
       = (IF Len(old) = cap THEN SubSeq(old, 2, cap) ELSE old)

\* C14: the price windows and the spread series never hold more than
\* lookback values, and every call of next() past the early return appends
\* the bar's prices, and its spread when there is one, evicting exactly the
\* oldest value of a full window.
C14_FifoWindows ==
  [][(nbars' # nbars) =>
       /\ Len(price_history1') <= Params.lookback
       /\ Len(price_history2') <= Params.lookback
       /\ Len(spreads') <= Params.lookback
       /\ path' # "short" =>
            /\ Fifo(price_history1, price_history1', Params.lookback)
            /\ Fifo(price_history2, price_history2', Params.lookback)
       /\ spreads' # spreads => Fifo(spreads, spreads', Params.lookback)
       /\ (path' \in {"skipped", "drawdown", "flat", "held", "escaped"}
           /\ spread' # None) =>
            /\ Fifo(spreads, spreads', Params.lookback)
            /\ spreads'[Len(spreads')] = Val(spread')]_vars

C14_FullWindowsShifted ==
  /\ Len(price_history1) = Params.lookback
  /\ Len(spreads) = Params.lookback
  /\ price_history1[Params.lookback] # price_history1[Params.lookback - 1]
  /\ spreads[Params.lookback] # spreads[Params.lookback - 1]
  /\ nbars > QuietBars + 1

\* C15: while the price windows hold fewer than lookback values the hedge
\* ratio, the spread and the z-score are None, check_pair_eligibility()
\* returns False whatever the cointegration test would say, and next()
\* emits no order.
C15_WarmUp ==
  Len(price_history1) < Params.lookback =>
    /\ hedge_ratio = None /\ spread = None /\ z_score = None
    /\ \A c \in CointOutcomes :
         /\ ~check_pair_eligibility(Self, c).raised
         /\ ~check_pair_eligibility(Self, c).ret
    /\ orders = << >>

C15_WindowsFilling ==
  /\ 0 < Len(price_history1) /\ Len(price_history1) < Params.lookback
  /\ path = "skipped"

\* C16: while the spread series holds fewer than 20 values the z-score is
\* None and next() takes no entry or exit decision (no order, no per-pair
\* record); a z-score is a number only with at least 20 spreads.
C16_ZScoreWarmUp ==
  /\ Len(spreads) < MinSpreads =>
       /\ z_score = None
       /\ orders = << >>
       /\ holding_days = None /\ entry_prices = None /\ entry_spread = None
  /\ z_score # None => Len(spreads) >= MinSpreads

C16_SpreadsFilling ==
  /\ 0 < Len(spreads) /\ Len(spreads) < MinSpreads
  /\ spread # None /\ z_score = None
  /\ path = "skipped"

\* C17: when the spread series holds at least 20 values and its standard
\* deviation is 0, the z-score is 0 and next() emits no entry order.
C17_ZeroVariance ==
  (Len(spreads) >= MinSpreads /\ Sxx(spreads) = 0) =>
    /\ z_score = Some(<<0, 1>>)
    /\ ~EntryEmitted

C17_ConstantSpreads ==
  /\ Len(spreads) >= MinSpreads /\ Sxx(spreads) = 0
  /\ z_score = Some(<<0, 1>>)
  /\ orders = << >>

\* C18: on a bar on which next() reaches its entry logic flat while a price
\* is zero or negative, no order is emitted whatever the z-score, and the
\* run goes on.
C18_NoOrderAtBadPrice ==
  (path = "flat" /\ (LastPrice1 <= 0 \/ LastPrice2 <= 0)) =>
    /\ orders = << >>
    /\ phase = "running"

C18_BadPriceBeyondEntry ==
  /\ path = "flat" /\ (LastPrice1 <= 0 \/ LastPrice2 <= 0)
  /\ ZBelowNeg(Val(z_score), Params.entry_z)
  /\ orders = << >> /\ phase = "running"

\* C19: on a bar on which next() reaches the stop-loss test with a position
\* open, the stop-loss close is emitted exactly when abs(spread -
\* entry_spread) exceeds three times the rolling standard deviation of the
\* hedge-ratio-adjusted spread series.
C19_StopLossOnSpreadStd ==
  (path = "held" /\ PositionOpen /\ spread # None /\ entry_spread # None) =>
    (HasWhy(orders, {"stop_loss"})
       <=> SpreadStopHit(Val(spread) - Val(entry_spread), spreads))

\* the hedge ratio of the entry bar, recovered from the entry record:
\* entry_spread = entry_price1 - hedge_ratio * entry_price2
EntryHedge ==
  (Val(entry_prices)[1] * Scale - Val(entry_spread)) \div Val(entry_prices)[2]

\* C20: the P&L that a normal exit adds to total_return is computed from the
\* entry prices, the current prices and the hedge ratio of the entry bar.
C20_PnlAtEntryHedge ==
  [][ ( /\ nbars' # nbars
        /\ HasWhy(orders', {"exit"}) /\ ~HasWhy(orders', {"time_stop"})
        /\ entry_prices # None /\ entry_spread # None
        /\ Val(entry_prices)[2] # 0 ) =>
      LET pnl == Pnl([entry_prices |-> entry_prices,
                      hedge_ratio |-> Some(EntryHedge)],
                     [pos1 |-> pos1', p1 |-> LastPrice1', p2 |-> LastPrice2'])
      IN  total_return' = total_return + Quot(pnl.num, pnl.den) ]_vars

\* the eligibility of the pair for the p-value of outcome c, as a condition
\* on the fields
Eligible(c) ==
  /\ half_life # None
  /\ Len(price_history1) < Params.lookback \/ PValue(c) <= CointLevel
  /\ ~Params.use_half_life
     \/ HalfLifeWithin(Val(half_life), Params.min_half_life,
                       Params.max_half_life)

\* C21: check_pair_eligibility() returns True if and only if half_life is
\* not None, and fewer than lookback prices are held or the p-value of the
\* cointegration test is <= 0.05, and use_half_life is off or half_life lies
\* in [min_half_life, max_half_life]; a half-life of the fallback 100 is
\* never eligible when max_half_life < 100.
C21_Eligibility ==
  /\ \A c \in CointOutcomes \ {"raise"} :
       /\ ~check_pair_eligibility(Self, c).raised
       /\ check_pair_eligibility(Self, c).ret <=> Eligible(c)
  /\ pair_eligible # None =>
       \E c \in CointOutcomes \ {"raise"} : Val(pair_eligible) <=> Eligible(c)
  /\ ( /\ Params.use_half_life /\ Params.max_half_life < HalfLifeFallback
       /\ half_life = Some(<<0, HalfLifeFallback, 1>>) ) =>
       /\ pair_eligible # Some(TRUE)
       /\ \A c \in CointOutcomes : ~check_pair_eligibility(Self, c).ret

C21_EligibleAndNot ==
  /\ pair_eligible = Some(TRUE)
  /\ check_pair_eligibility(Self, "p01").ret
  /\ ~check_pair_eligibility(Self, "p09").ret

SteppedBars == IF nbars > KalmanStart THEN nbars - KalmanStart ELSE 0

SteppedPrice(i) ==
  IF KalmanStart + i <= QuietBars THEN BasePrice
  ELSE LET j == Len(price_history1) - (SteppedBars - i)
       IN  <<price_history1[j], price_history2[j]>>

\* the filter after n steps at the closes of the quiet stretch
RECURSIVE QuietReplay(_)
QuietReplay(n) ==
  IF n = 0 THEN KalmanInit
  ELSE KalmanStep(QuietReplay(n - 1), BasePrice[1], BasePrice[2])

QuietKalman == QuietReplay(QuietBars - KalmanStart)

\* the filter k stepped through the closes of the stepped bars i, i + 1, ...
RECURSIVE Replay(_, _)
Replay(k, i) ==
  IF i > SteppedBars THEN k
  ELSE Replay(KalmanStep(k, SteppedPrice(i)[1], SteppedPrice(i)[2]), i + 1)

Replayed ==
  IF nbars <= QuietBars THEN QuietReplay(SteppedBars)
  ELSE Replay(QuietKalman, QuietBars - KalmanStart + 1)

\* C23: after every bar the Kalman state (x, P) and the hedge ratio are those
\* obtained by stepping the initial state through the closes of the bars on
\* which the filter was stepped, in their order, whatever else happened in
\* the run.
C23_KalmanReproducible ==
  /\ kalman_state = Replayed
  /\ hedge_ratio = IF SteppedBars = 0 THEN None ELSE Some(kalman_state.x)

C23_SteppedThroughTrades ==
  /\ nbars >= QuietBars + 2
  /\ LastPrice1 # price_history1[Len(price_history1) - 1]
  /\ PositionOpen /\ drawdown_lock
  /\ kalman_state = Replayed

\* C24: calculate_half_life returns None exactly when fewer than 20 spreads
\* are held; otherwise it returns the fallback 100 or ln(2) / -beta for a
\* negative coefficient beta, a strictly positive number in both cases.
C24_HalfLifeResult ==
  LET r == calculate_half_life(Self)
  IN  /\ ~r.raised
      /\ r.ret = None <=> Len(spreads) < MinSpreads
      /\ r.ret # None =>
           \/ r.ret = Some(<<0, HalfLifeFallback, 1>>)
           \/ Val(r.ret)[1] = 1 /\ Val(r.ret)[2] > 0 /\ Val(r.ret)[3] > 0

\* a / b <= m for the fraction <<a, b>>, b > 0, and an integer m
FracAtMost(q, m) == (q[1] + q[2] - 1) \div q[2] <= m

\* hedge ratios on both sides of the clamp, in units of 1/Scale
HedgeSamples == {-7 * Scale, -5 * Scale, 0, 5 * Scale, 7 * Scale}

\* C25: on every bar that sizes an entry the notional of the instrument-1
\* leg is at most base_position = portfolio value * position_size and the
\* notional of the instrument-2 leg at most 5 times base_position, whatever
\* the hedge ratio.
C25_SizingCap ==
  path = "flat" =>
    /\ FracAtMost(Notional1Sq(Self), 1)
    /\ \A h \in HedgeSamples \cup {Val(hedge_ratio)} :
         FracAtMost(Notional2Sq([Self EXCEPT !.hedge_ratio = Some(h)]),
                    HedgeLimit * HedgeLimit * Scale * Scale)

C25_ScaledEntry ==
  /\ path = "flat" /\ EntryEmitted
  /\ PositionScaleSq(Self)[1] < PositionScaleSq(Self)[2]
  /\ FracAtMost(Notional2Sq(Self), HedgeLimit * HedgeLimit * Scale * Scale)

\* C26: after each call of next(), peak_value is the maximum of the initial
\* capital and the portfolio values of all bars seen so far.
C26_PeakIsRunningMax == peak_value = seen_peak

\* the pairs that pass the screening: long enough overlap, p-value below the
\* threshold and abs(correlation) above 0.5
Passing ==
  {i \in 1..Len(symbol_pairs) :
     /\ pair_data[i].overlap
     /\ pair_data[i].pvalue < PairThreshold
     /\ Abs(pair_data[i].correlation) > MinCorrelation}

\* the position of the pair of result r in symbol_pairs
PairIndex(r) ==
  CHOOSE i \in 1..Len(symbol_pairs) :
    Symbols[symbol_pairs[i][1]] = r[1] /\ Symbols[symbol_pairs[i][2]] = r[2]

\* C27: whatever the interleaving of the worker threads and whatever
\* max_workers, every pair is tested exactly once and find_pairs returns the
\* passing pairs, each once with its p-value and correlation, in ascending
\* order of p-value, equal p-values in the order of symbol_pairs.
C27_ScreeningDeterministic ==
  /\ \A i \in 1..Len(symbol_pairs) :
       Cardinality({k \in 1..Len(completed) : completed[k] = i})
         = IF i <= started /\ i \notin running THEN 1 ELSE 0
  /\ pairs # None =>
       LET r == Val(pairs)
       IN  /\ Len(completed) = Len(symbol_pairs)
           /\ Len(r) = Cardinality(Passing)
           /\ \A i \in Passing :
                \E k \in 1..Len(r) :
                  r[k] = <<Symbols[symbol_pairs[i][1]],
                           Symbols[symbol_pairs[i][2]],
                           pair_data[i].pvalue, pair_data[i].correlation>>
           /\ \A k \in 1..Len(r), l \in 1..Len(r) :
                k < l =>
                  \/ r[k][3] < r[l][3]
                  \/ r[k][3] = r[l][3] /\ PairIndex(r[k]) < PairIndex(r[l])

C27_OutOfOrderTie ==
  /\ pairs # None /\ Len(Val(pairs)) >= 2
  /\ Val(pairs)[1][3] = Val(pairs)[2][3]
  /\ \E k \in 1..Len(completed), l \in 1..Len(completed) :
       k < l /\ completed[k] > completed[l]

\* the number of close orders for leg data among os
CloseCount(os, data) ==
  Cardinality({i \in 1..Len(os) : os[i].data = data /\ os[i].why \in Closes})

\* C28: a call of next() emits at most one close order for instrument 1 and
\* at most one for instrument 2.
C28_OneClosePerLeg ==
  CloseCount(orders, 1) <= 1 /\ CloseCount(orders, 2) <= 1

\* C29: after every bar 0 <= active_pairs <= max_positions, and active_pairs
\* is 1 while a position entered by the strategy is open and 0 otherwise.
C29_ActivePairsCountsOpen ==
  /\ 0 <= active_pairs /\ active_pairs <= Params.max_positions
  /\ active_pairs = IF pair_open THEN 1 ELSE 0

\* C30: trades_total counts the bars on which entry orders were emitted,
\* entry_points holds exactly those bars, and trades_won <= trades_total.
C30_TradesMatchEntries ==
  [][ (nbars' # nbars) =>
        /\ trades_total' =
             trades_total + (IF HasWhy(orders', {"entry"}) THEN 1 ELSE 0)
        /\ Len(entry_points') =
             Len(entry_points) + (IF HasWhy(orders', {"entry"}) THEN 1 ELSE 0)
        /\ trades_won' <= trades_total' ]_vars

====
